---- MODULE Spec2Model ----
(***************************************************************************)
(* Jira export: the web surface (src/app.py) and the command line tool     *)
(* (src/get_jira.py).  The model covers the duration humanizer, the two    *)
(* paginated fetchers, the projector/enricher and the two entry points.    *)
(*                                                                         *)
(* Python values: an optional value (None, a missing dict key, JSON null)  *)
(* is the empty tuple, a present value v is the one-element tuple <<v>>.   *)
(* A dict is a record; dict.get is Get.                                    *)
(***************************************************************************)
EXTENDS Integers, Sequences, FiniteSets, TLC

\* ------------------------------------------------------------------ bounds
MaxUnit == 2          \* days, hours and minutes of a humanizer input: 0..MaxUnit
MaxIssues == 3        \* issues held by the tracker (store upstream)
MaxLogs == 2          \* work-logs held per issue (store upstream)
MaxPage == 2          \* page sizes tried for max_results: 1..MaxPage
MaxRequests == 3      \* requests one fetch may issue before the model stops it
MaxBatch == 2         \* batch lengths a scripted upstream answers with
MaxTotal == 3         \* totals a scripted upstream reports: 0..MaxTotal
LargeStore == 250    \* issues held by the large tracker fetched with the default page size
MaxStart == 1         \* start_at arguments tried for fetch_worklogs: 0..MaxStart

\* ------------------------------------------------------------------ Python values
None == <<>>
Some(v) == <<v>>
Get(d, k) == IF k \in DOMAIN d THEN d[k] ELSE None
\* `x or {}` followed by .get(k): a missing or null object gives None
GetIn(d, k, k2) == IF Get(d, k) = None THEN None ELSE Get(Get(d, k)[1], k2)

Min(a, b) == IF a <= b THEN a ELSE b

RECURSIVE Join(_, _)
Join(parts, sep) ==
    IF parts = <<>> THEN ""
    ELSE IF Len(parts) = 1 THEN parts[1]
    ELSE parts[1] \o sep \o Join(Tail(parts), sep)

\* ------------------------------------------------------------------ humanizer
\* the suffix, had the code pluralized every non-zero count
PluralAlways(n) == IF n >= 1 THEN "s" ELSE ""
\* app.py:17-19, the plural suffix of one part
Plural(n) == IF n > 1 THEN "s" ELSE ""

\* app.py:17-19, one part, appended when its count is truthy
Part(n, unit) == IF n # 0 THEN <<ToString(n) \o " " \o unit \o Plural(n)>> ELSE <<>>

\* app.py:9-20
format_seconds_human(secs) ==
    IF secs = None THEN None
    ELSE LET s == secs[1]
             days == s \div 86400
             rem1 == s % 86400
             hours == rem1 \div 3600
             rem2 == rem1 % 3600
             minutes == rem2 \div 60
             parts == Part(days, "day") \o Part(hours, "hour") \o Part(minutes, "minute")
         IN  Some(IF parts # <<>> THEN Join(parts, ", ") ELSE "0 minutes")

\* ------------------------------------------------------------------ raw records
TimeFields ==
    {"timeoriginalestimate", "timeestimate", "timespent",
     "aggregatetimeoriginalestimate", "aggregatetimeestimate", "aggregatetimespent"}

\* The upstream's issue record (spec, Raw Issue Record): a key and a fields map.
RawIssue(n, times) ==
    [key |-> Some(n),
     fields |-> Some(
        [summary |-> Some("ticket"),
         status |-> IF n % 2 = 0 THEN Some([name |-> Some("Closed")]) ELSE None,
         resolution |-> Some([name |-> Some("Fixed")]),
         resolutiondate |-> Some("2024-05-02T10:00:00.000+0000"),
         updated |-> Some("2024-05-03T10:00:00.000+0000"),
         assignee |-> IF n % 2 = 1 THEN Some([displayName |-> Some("Ada")]) ELSE None,
         labels |-> Some(<<"export">>),
         components |-> IF n % 2 = 0 THEN Some(<<[name |-> Some("core")]>>) ELSE None]
        @@ times)]

\* The upstream's work-log record (spec, Raw Worklog Record).
RawWorklog(n, timeSpent, timeSpentSeconds, comment) ==
    [author |-> Some([displayName |-> Some("Ada")]),
     started |-> Some("2024-05-0" \o ToString(n) \o "T09:00:00.000+0000"),
     timeSpent |-> timeSpent,
     timeSpentSeconds |-> timeSpentSeconds,
     comment |-> comment]

StrComment == Some([type |-> "str", text |-> "done"])
DocComment == Some([type |-> "doc", text |-> "rich text"])

\* Inputs: time values of an issue, and the time profiles tried for one issue:
\* every profile in which one field differs from the five others, and one in which
\* the six fields all differ.
TimeValues == {None, Some(0), Some(5400)}
TimeProfiles ==
    {[f \in TimeFields |-> IF f = g THEN v ELSE w] :
        g \in TimeFields, v \in TimeValues, w \in TimeValues}
    \cup {[timeoriginalestimate |-> Some(60), timeestimate |-> Some(3600),
           timespent |-> Some(86400), aggregatetimeoriginalestimate |-> Some(120),
           aggregatetimeestimate |-> Some(7200), aggregatetimespent |-> Some(172800)]}

PlainTimes(n) ==
    [f \in TimeFields |-> IF n % 2 = 1 THEN Some(60 * n) ELSE None]
PlainIssue(n) == RawIssue(n, PlainTimes(n))
PlainWorklog(n) == RawWorklog(n, None, Some(3600 * n), StrComment)

RichIssues == {RawIssue(1, p) : p \in TimeProfiles}
\* Work-logs tried for one issue: every pair of a pre-formatted timeSpent (absent,
\* empty, present) and timeSpentSeconds (absent, zero, positive), and every comment.
RichWorklogs ==
    {RawWorklog(1, ts, tss, StrComment) :
        ts \in {None, Some(""), Some("1h")},
        tss \in {None, Some(0), Some(3600)}}
    \cup {RawWorklog(1, Some("1h"), Some(3600), c) : c \in {None, DocComment}}

SeqsUpTo(S, n) == UNION {[1..k -> S] : k \in 0..n}

\* ------------------------------------------------------------------ projector
\* it.get("fields", {})
FieldsOf(it) == IF Get(it, "fields") = None THEN <<>> ELSE Get(it, "fields")[1]

\* [c.get("name") for c in (f.get("components") or [])]
ComponentNames(f) ==
    IF Get(f, "components") = None THEN <<>>
    ELSE LET cs == Get(f, "components")[1] IN [i \in 1..Len(cs) |-> Get(cs[i], "name")]

\* the nine fields both projectors extract: app.py:80-88, get_jira.py:76-84
NineFields(it) ==
    LET f == FieldsOf(it)
    IN  [key |-> Get(it, "key"),
         summary |-> Get(f, "summary"),
         status |-> GetIn(f, "status", "name"),
         resolution |-> GetIn(f, "resolution", "name"),
         resolutiondate |-> Get(f, "resolutiondate"),
         updated |-> Get(f, "updated"),
         assignee |-> GetIn(f, "assignee", "displayName"),
         labels |-> Get(f, "labels"),
         components |-> ComponentNames(f)]

\* app.py:72-77 and 89-102
TimeBlock(it) ==
    LET f == FieldsOf(it)
        original == Get(f, "timeoriginalestimate")
        remaining == Get(f, "timeestimate")
        spent == Get(f, "timespent")
        agg_orig == Get(f, "aggregatetimeoriginalestimate")
        agg_rem == Get(f, "aggregatetimeestimate")
        agg_sp == Get(f, "aggregatetimespent")
    IN  [originalEstimateSeconds |-> original,
         originalEstimateHuman |-> format_seconds_human(original),
         remainingEstimateSeconds |-> remaining,
         remainingEstimateHuman |-> format_seconds_human(remaining),
         timeSpentSeconds |-> spent,
         timeSpentHuman |-> format_seconds_human(spent),
         aggregateOriginalEstimateSeconds |-> agg_orig,
         aggregateOriginalEstimateHuman |-> format_seconds_human(agg_orig),
         aggregateRemainingEstimateSeconds |-> agg_rem,
         aggregateRemainingEstimateHuman |-> format_seconds_human(agg_rem),
         aggregateTimeSpentSeconds |-> agg_sp,
         aggregateTimeSpentHuman |-> format_seconds_human(agg_sp)]

\* app.py:79-103, the item of one issue
WebItem(it) == NineFields(it) @@ [time |-> TimeBlock(it)]

\* get_jira.py:75-85, the item of one issue
CliItem(it) == NineFields(it)

\* Python's `a or b` on an optional string: None and "" are falsy
Truthy(a) == a # None /\ a[1] # ""
Or(a, b) == IF Truthy(a) THEN a ELSE b

\* app.py:109-115, one work-log of the item
WorklogItem(wl) ==
    [author |-> GetIn(wl, "author", "displayName"),
     started |-> Get(wl, "started"),
     timeSpentSeconds |-> Get(wl, "timeSpentSeconds"),
     timeSpentHuman |->
        Or(Get(wl, "timeSpent"), format_seconds_human(Get(wl, "timeSpentSeconds"))),
     comment |->
        IF Get(wl, "comment") # None /\ Get(wl, "comment")[1].type = "str"
        THEN Get(wl, "comment") ELSE None]

\* app.py:105-115, item["worklogs"] = [...]
AttachWorklogs(item, logs) ==
    item @@ [worklogs |-> [i \in 1..Len(logs) |-> WorklogItem(logs[i])]]

\* ------------------------------------------------------------------ state
VARIABLES
    entry,            \* what was invoked: "export" (app.py export / get_jira.py main),
                      \* "project_issues", "fetchers" (both fetchers, one mock), "humanizer"
    surface,          \* "web" (app.py) or "cli" (get_jira.py)
    mock,             \* the upstream: "store" (serves its records in pages, may fail)
                      \* or "script" (answers anything, the same to both endpoints)
    down,             \* the upstream has stopped answering
    istore, wstore,   \* store upstream: the issues matching the query, an issue's work-logs
    max_results,      \* the page size both fetchers ask for
    script, wscript,  \* the responses served so far by the search / work-log endpoint
    fpc, start_at, total, issues, reqs,            \* fetch_all_issues
    wpc, sa, wtotal, logs_all, wreqs, wstart, issue_key,   \* fetch_worklogs
    epc, include_worklogs, out, output, err,       \* project_issues, export / main
    seconds, human, hpc                            \* format_seconds_human

vars ==
    <<entry, surface, mock, down, istore, wstore, max_results, script, wscript,
      fpc, start_at, total, issues, reqs,
      wpc, sa, wtotal, logs_all, wreqs, wstart, issue_key,
      epc, include_worklogs, out, output, err, seconds, human, hpc>>

envVars == <<entry, surface, mock, istore, wstore, max_results>>
searchVars == <<fpc, start_at, total, issues, reqs, script>>
worklogVars == <<wpc, sa, wtotal, logs_all, wreqs, wstart, issue_key, wscript>>
humanVars == <<seconds, human, hpc>>

\* ------------------------------------------------------------------ upstream
ErrorStatuses == {403, 500}
ErrorShapes == {[status |-> st, len |-> 0, total |-> None] : st \in ErrorStatuses}
\* what a scripted upstream may answer: a status, a batch length, a total or none
AllShapes ==
    {[status |-> 200, len |-> n, total |-> t] :
        n \in 0..MaxBatch, t \in {None} \cup {Some(k) : k \in 0..MaxTotal}}
    \cup ErrorShapes

\* the page a store upstream serves at an offset
Page(store, offset, limit) == SubSeq(store, offset + 1, Min(offset + limit, Len(store)))
HonestShape(store, offset, limit) ==
    [status |-> 200, len |-> Len(Page(store, offset, limit)), total |-> Some(Len(store))]

PlainIssues(n) == [i \in 1..n |-> PlainIssue(i)]
PlainWorklogs(n) == [i \in 1..n |-> PlainWorklog(i)]

\* the answers the search endpoint may give to the request in flight
SearchShapes ==
    IF mock = "store" THEN {HonestShape(istore, start_at, max_results)} \cup ErrorShapes
    ELSE IF Len(wscript) >= Len(reqs) THEN {wscript[Len(reqs)]}
    ELSE AllShapes
SearchBatch(r) ==
    IF mock = "store" THEN Page(istore, start_at, max_results)
    ELSE [j \in 1..r.len |-> PlainIssue(start_at + j)]

\* the answers the work-log endpoint may give to the request in flight
WorklogShapes ==
    IF mock = "store" THEN {HonestShape(wstore, sa, max_results)} \cup ErrorShapes
    ELSE IF Len(script) >= Len(wreqs) THEN {script[Len(wreqs)]}
    ELSE AllShapes
WorklogBatch(r) ==
    IF mock = "store" THEN Page(wstore, sa, max_results)
    ELSE [j \in 1..r.len |-> PlainWorklog(sa + j)]

\* ------------------------------------------------------------------ fetch_all_issues
\* app.py:22, get_jira.py:38: max_results=100
DefaultMaxResults == 100

\* the check, had the code aborted on server errors only
IsServerErrorOnly(sfc, status) == status >= 500
\* app.py:36 (status_code >= 400), get_jira.py:56 (raise_for_status: 400..599)
IsHttpError(sfc, status) ==
    IF sfc = "web" THEN status >= 400 ELSE status >= 400 /\ status < 600

\* app.py:35 passes timeout=30, get_jira.py:54 passes none
HasTimeout(sfc) == sfc = "web"

\* app.py:42-43, get_jira.py:63-64
CaptureTotal(tot, reported, batch) ==
    IF tot = None
    THEN (IF reported = None THEN Some(Len(batch)) ELSE reported)
    ELSE tot

\* the cursor, had the code advanced by the page size asked for
AdvanceByPageSize(offset, batch) == offset + max_results
\* app.py:44, get_jira.py:65
Advance(offset, batch) == offset + Len(batch)

\* the stop test, had the code compared with > instead of >=
ExhaustedStrict(offset, tot) == offset > tot[1]
\* app.py:45, get_jira.py:66
Exhausted(offset, tot) == offset >= tot[1]

HttpError(status, key) == Some([kind |-> "http", status |-> status, key |-> key])
TimeoutError == Some([kind |-> "timeout", status |-> 0, key |-> None])

\* app.py:28-35, get_jira.py:46-54: the GET of one page
SearchRequest ==
    /\ fpc = "request"
    /\ Len(reqs) < MaxRequests
    /\ reqs' = Append(reqs, start_at)
    /\ fpc' = "await"
    /\ UNCHANGED <<envVars, down, script, start_at, total, issues, worklogVars,
                   epc, include_worklogs, out, output, err, humanVars>>

\* app.py:36-46, get_jira.py:55-67: the response of one page
SearchResponse ==
    /\ fpc = "await"
    /\ ~down
    /\ \E r \in SearchShapes :
         LET batch == SearchBatch(r)
             tot == CaptureTotal(total, r.total, batch)
             off == Advance(start_at, batch)
         IN  /\ script' = Append(script, r)
             /\ IF IsHttpError(surface, r.status)
                THEN /\ fpc' = "aborted"
                     /\ err' = HttpError(r.status, None)
                     /\ UNCHANGED <<issues, total, start_at>>
                ELSE /\ issues' = issues \o batch
                     /\ total' = tot
                     /\ start_at' = off
                     /\ fpc' = IF Exhausted(off, tot) THEN "returned" ELSE "request"
                     /\ err' = err
    /\ UNCHANGED <<envVars, down, reqs, worklogVars,
                   epc, include_worklogs, out, output, humanVars>>

\* app.py:35: requests raises Timeout after 30 s without an answer
SearchTimeout ==
    /\ fpc = "await"
    /\ down
    /\ HasTimeout(surface)
    /\ fpc' = "failed"
    /\ err' = TimeoutError
    /\ UNCHANGED <<envVars, down, script, start_at, total, issues, reqs, worklogVars,
                   epc, include_worklogs, out, output, humanVars>>

\* the upstream stops answering while a request is in flight
UpstreamStall ==
    /\ ~down
    /\ "await" \in {fpc, wpc}
    /\ down' = TRUE
    /\ UNCHANGED <<envVars, searchVars, worklogVars,
                   epc, include_worklogs, out, output, err, humanVars>>

\* ------------------------------------------------------------------ fetch_worklogs
\* app.py:61
WorklogTotal(reported) == IF reported = None THEN Some(0) ELSE reported

\* app.py:55-56: the GET of one page
WorklogRequest ==
    /\ wpc = "request"
    /\ Len(wreqs) < MaxRequests
    /\ wreqs' = Append(wreqs, sa)
    /\ wpc' = "await"
    /\ UNCHANGED <<envVars, down, searchVars, sa, wtotal, logs_all, wstart, issue_key,
                   wscript, epc, include_worklogs, out, output, err, humanVars>>

\* app.py:57-65: the response of one page
WorklogResponse ==
    /\ wpc = "await"
    /\ ~down
    /\ \E r \in WorklogShapes :
         LET logs == WorklogBatch(r)
             tot == WorklogTotal(r.total)
             off == Advance(sa, logs)
         IN  /\ wscript' = Append(wscript, r)
             /\ IF r.status >= 400
                THEN /\ wpc' = "aborted"
                     /\ err' = HttpError(r.status, issue_key)
                     /\ UNCHANGED <<logs_all, wtotal, sa>>
                ELSE /\ logs_all' = logs_all \o logs
                     /\ wtotal' = tot
                     /\ sa' = off
                     /\ wpc' = IF Exhausted(off, tot) THEN "returned" ELSE "request"
                     /\ err' = err
    /\ UNCHANGED <<envVars, down, searchVars, wreqs, wstart, issue_key,
                   epc, include_worklogs, out, output, humanVars>>

\* app.py:56: requests raises Timeout after 30 s without an answer
WorklogTimeout ==
    /\ wpc = "await"
    /\ down
    /\ wpc' = "failed"
    /\ err' = TimeoutError
    /\ UNCHANGED <<envVars, down, searchVars, sa, wtotal, logs_all, wreqs, wstart,
                   issue_key, wscript, epc, include_worklogs, out, output, humanVars>>

\* ------------------------------------------------------------------ project_issues
\* the record, had the loop kept reading the first one
CurrentFirst == issues[1]
\* app.py:70, get_jira.py:73: the raw record the loop is at
Current == issues[Len(out) + 1]

\* app.py:158, get_jira.py:125: the entry point calls project_issues(issues)
CallProject ==
    /\ entry = "export"
    /\ epc = "fetch"
    /\ fpc = "returned"
    /\ epc' = "project"
    /\ out' = <<>>
    /\ UNCHANGED <<envVars, down, searchVars, worklogVars,
                   include_worklogs, output, err, humanVars>>

\* app.py:70-106: one iteration up to the call of fetch_worklogs(base_url, auth, key);
\* without work-logs the item is appended at once (app.py:117)
ProjectIssue ==
    /\ epc = "project"
    /\ surface = "web"
    /\ wpc = "idle"
    /\ Len(out) < Len(issues)
    /\ IF include_worklogs
       THEN /\ wpc' = "request"
            /\ sa' = 0
            /\ wstart' = 0
            /\ wtotal' = None
            /\ logs_all' = <<>>
            /\ wreqs' = <<>>
            /\ wscript' = <<>>
            /\ issue_key' = Get(Current, "key")
            /\ out' = out
       ELSE /\ out' = Append(out, WebItem(Current))
            /\ UNCHANGED worklogVars
    /\ UNCHANGED <<envVars, down, searchVars,
                   epc, include_worklogs, output, err, humanVars>>

\* app.py:109-117: fetch_worklogs returned, the item gets its work-logs and is appended
ProjectAttach ==
    /\ epc = "project"
    /\ surface = "web"
    /\ wpc = "returned"
    /\ out' = Append(out, AttachWorklogs(WebItem(Current), logs_all))
    /\ wpc' = "idle"
    /\ UNCHANGED <<envVars, down, searchVars, sa, wtotal, logs_all, wreqs, wstart,
                   issue_key, wscript, epc, include_worklogs, output, err, humanVars>>

\* get_jira.py:73-85: one iteration
ProjectIssueCli ==
    /\ epc = "project"
    /\ surface = "cli"
    /\ Len(out) < Len(issues)
    /\ out' = Append(out, CliItem(Current))
    /\ UNCHANGED <<envVars, down, searchVars, worklogVars,
                   epc, include_worklogs, output, err, humanVars>>

\* app.py:118, get_jira.py:86: return out
ProjectReturn ==
    /\ epc = "project"
    /\ wpc = "idle"
    /\ Len(out) = Len(issues)
    /\ epc' = "projected"
    /\ UNCHANGED <<envVars, down, searchVars, worklogVars,
                   include_worklogs, out, output, err, humanVars>>

\* ------------------------------------------------------------------ export / main
\* app.py:160-166: the JSON body of the response
ExportRespond ==
    /\ entry = "export"
    /\ surface = "web"
    /\ epc = "projected"
    /\ output' = Some([kind |-> "body", records |-> out])
    /\ epc' = "done"
    /\ UNCHANGED <<envVars, down, searchVars, worklogVars,
                   include_worklogs, out, err, humanVars>>

\* get_jira.py:127-130: the output file
WriteFile ==
    /\ entry = "export"
    /\ surface = "cli"
    /\ epc = "projected"
    /\ output' = Some([kind |-> "file", records |-> out])
    /\ epc' = "done"
    /\ UNCHANGED <<envVars, down, searchVars, worklogVars,
                   include_worklogs, out, err, humanVars>>

\* app.py:37, 58 (abort), get_jira.py:59 (raise): the error leaves the entry point
ExportFail ==
    /\ entry = "export"
    /\ epc \in {"fetch", "project"}
    /\ {fpc, wpc} \cap {"aborted", "failed"} # {}
    /\ epc' = "error"
    /\ UNCHANGED <<envVars, down, searchVars, worklogVars,
                   include_worklogs, out, output, err, humanVars>>

\* ------------------------------------------------------------------ humanizer call
\* app.py:9-20: one call of format_seconds_human(seconds)
Humanize ==
    /\ hpc = "call"
    /\ human' = format_seconds_human(seconds)
    /\ hpc' = "returned"
    /\ UNCHANGED <<envVars, down, searchVars, worklogVars,
                   epc, include_worklogs, out, output, err, seconds>>

\* ------------------------------------------------------------------ specifications
\* everything at rest; each Init below overrides what its entry point sets
Rest(e, sfc, m) ==
    /\ entry = e /\ surface = sfc /\ mock = m /\ down = FALSE
    /\ script = <<>> /\ wscript = <<>>
    /\ start_at = 0 /\ total = None /\ reqs = <<>>
    /\ wtotal = None /\ logs_all = <<>> /\ wreqs = <<>>
    /\ out = <<>> /\ output = None /\ err = None
    /\ human = None

\* the stores and page sizes tried: every small pair, and a store of several pages
\* fetched with the default page size
StoreCases ==
    ((0..MaxIssues) \X (1..MaxPage)) \cup {<<LargeStore, DefaultMaxResults>>}

\* export() of app.py, main() of get_jira.py against a store upstream: the locals of
\* fetch_all_issues as app.py:25 / get_jira.py:39-41 set them
Init ==
    /\ \E sfc \in {"web", "cli"} :
         /\ Rest("export", sfc, "store")
         /\ include_worklogs = (sfc = "web")
         /\ wstore \in {PlainWorklogs(n) : n \in IF sfc = "web" THEN 0..MaxLogs ELSE {0}}
    /\ \E tp \in StoreCases :
         /\ istore = PlainIssues(tp[1])
         /\ max_results = tp[2]
    /\ issues = <<>>
    /\ fpc = "request" /\ epc = "fetch"
    /\ wpc = "idle" /\ sa = 0 /\ wstart = 0 /\ issue_key = None
    /\ seconds = None /\ hpc = "idle"

Next ==
    \/ SearchRequest \/ SearchResponse \/ SearchTimeout \/ UpstreamStall
    \/ CallProject \/ ProjectIssue \/ ProjectIssueCli \/ ProjectAttach \/ ProjectReturn
    \/ WorklogRequest \/ WorklogResponse \/ WorklogTimeout
    \/ ExportRespond \/ WriteFile \/ ExportFail

Spec == Init /\ [][Next]_vars

\* the timeouts requests enforces fire; every step of the program is taken
FairSpec == Spec /\ WF_vars(Next)

\* project_issues called on a raw list: plain lists, one issue with every time
\* profile, one issue with every work-log store
InitProject ==
    /\ \E sfc \in {"web", "cli"} :
         /\ Rest("project_issues", sfc, "store")
         /\ include_worklogs \in IF sfc = "web" THEN BOOLEAN ELSE {FALSE}
         /\ \/ /\ issues \in {PlainIssues(n) : n \in 0..MaxIssues}
               /\ wstore \in {PlainWorklogs(n) : n \in IF sfc = "web" THEN 0..MaxLogs ELSE {0}}
            \/ /\ issues \in {<<it>> : it \in RichIssues}
               /\ wstore = PlainWorklogs(1)
            \/ /\ issues = PlainIssues(1)
               /\ sfc = "web"
               /\ include_worklogs
               /\ wstore \in SeqsUpTo(RichWorklogs, MaxLogs)
    /\ istore = <<>>
    /\ max_results \in 1..MaxPage
    /\ fpc = "idle" /\ epc = "project"
    /\ wpc = "idle" /\ sa = 0 /\ wstart = 0 /\ issue_key = None
    /\ seconds = None /\ hpc = "idle"

NextProject ==
    \/ ProjectIssue \/ ProjectIssueCli \/ ProjectAttach \/ ProjectReturn
    \/ WorklogRequest \/ WorklogResponse

SpecProject == InitProject /\ [][NextProject]_vars

\* both fetchers called against one scripted upstream that answers both alike
InitFetchers ==
    /\ \E sfc \in {"web", "cli"} : Rest("fetchers", sfc, "script")
    /\ istore = <<>> /\ wstore = <<>> /\ issues = <<>>
    /\ max_results = DefaultMaxResults
    /\ fpc = "request" /\ epc = "idle" /\ include_worklogs = FALSE
    /\ wpc = "request" /\ wstart \in 0..MaxStart /\ sa = wstart /\ issue_key = Some(1)
    /\ seconds = None /\ hpc = "idle"

NextFetchers ==
    \/ SearchRequest \/ SearchResponse \/ WorklogRequest \/ WorklogResponse

SpecFetchers == InitFetchers /\ [][NextFetchers]_vars

\* format_seconds_human called on null and on the non-negative second counts
\* d days, h hours, m minutes and r left-over seconds
HumanInputs ==
    {None} \cup
    {Some(d * 86400 + h * 3600 + m * 60 + r) :
        d \in 0..MaxUnit, h \in 0..MaxUnit, m \in 0..MaxUnit, r \in {0, 59}}

InitHuman ==
    /\ Rest("humanizer", "web", "store")
    /\ istore = <<>> /\ wstore = <<>> /\ issues = <<>> /\ max_results = 1
    /\ fpc = "idle" /\ epc = "idle" /\ include_worklogs = FALSE
    /\ wpc = "idle" /\ sa = 0 /\ wstart = 0 /\ issue_key = None
    /\ seconds \in HumanInputs /\ hpc = "call"

NextHuman == Humanize

SpecHuman == InitHuman /\ [][NextHuman]_vars

\* ================================================================== claims
Ceil(a, b) == (a + b - 1) \div b
Max(a, b) == IF a >= b THEN a ELSE b
RECURSIVE SumLens(_, _)
\* the records the first k responses of a log carried
SumLens(log, k) == IF k = 0 THEN 0 ELSE SumLens(log, k - 1) + log[k].len

\* ------------------------------------------------------------------ C5
\* C5: format_seconds_human returns null for null; for a non-negative s, with
\* d = s div 86400, h = (s mod 86400) div 3600, m = (s mod 3600) div 60, it returns
\* "0 minutes" when d, h and m are all zero and otherwise the non-zero components in
\* the order days, hours, minutes joined by ", ", each "<n> <unit>" with "s" appended
\* exactly when n > 1; 90000 gives "1 day, 1 hour", 7200 "2 hours", 59 and 0
\* "0 minutes".
C5_Humanizer ==
    hpc = "returned" =>
        IF seconds = None THEN human = None
        ELSE LET s == seconds[1]
                 d == s \div 86400
                 h == (s % 86400) \div 3600
                 m == (s % 3600) \div 60
                 Comp(n, u) ==
                    IF n = 0 THEN ""
                    ELSE ToString(n) \o " " \o u \o (IF n > 1 THEN "s" ELSE "")
                 sep1 == IF d > 0 /\ h + m > 0 THEN ", " ELSE ""
                 sep2 == IF h > 0 /\ m > 0 THEN ", " ELSE ""
             IN  /\ s >= 0
                 /\ human # None
                 /\ d + h + m = 0 => human[1] = "0 minutes"
                 /\ d + h + m > 0 =>
                        human[1] = Comp(d, "day") \o sep1 \o Comp(h, "hour") \o sep2
                                   \o Comp(m, "minute")
                 /\ s = 90000 => human[1] = "1 day, 1 hour"
                 /\ s = 7200 => human[1] = "2 hours"
                 /\ s \in {0, 59} => human[1] = "0 minutes"

C5_Witness ==
    hpc = "returned" /\ seconds = Some(90000) /\ human = Some("1 day, 1 hour")

\* ------------------------------------------------------------------ C1
\* C1 as stated: against a store of T issues served in pages of P, fetch_all_issues
\* returns after exactly ceil(T/P) requests with startAt 0, P, 2P, ... and returns
\* the T records in the order received.
C1_AsStated ==
    LET T == Len(istore)
        P == max_results
    IN  /\ \A k \in 1..Len(reqs) : reqs[k] = (k - 1) * P
        /\ fpc = "returned" => Len(reqs) = Ceil(T, P) /\ issues = istore

\* C1 amended: the same with max(1, ceil(T/P)) requests: an empty result set costs one
\* request; and no fetch ever issues more requests than that.
C1_Pagination ==
    LET T == Len(istore)
        P == max_results
    IN  /\ \A k \in 1..Len(reqs) : reqs[k] = (k - 1) * P
        /\ Len(reqs) <= Max(1, Ceil(T, P))
        /\ fpc = "returned" => Len(reqs) = Max(1, Ceil(T, P)) /\ issues = istore

C1_Witness ==
    /\ fpc = "returned"
    /\ max_results = DefaultMaxResults
    /\ reqs = <<0, 100, 200>>
    /\ Len(issues) > 200
    /\ issues = istore

\* ------------------------------------------------------------------ C3
\* C3: a search-page response with an error status (>= 400), first page or later,
\* aborts the export at that response: it is the last response served and no request
\* follows it, the error carries its status code, and no output is ever produced (no
\* projection, no work-log request, no body, no file).
C3_AbortOnError ==
    \A k \in 1..Len(script) :
        script[k].status >= 400 =>
            /\ k = Len(script)
            /\ Len(reqs) = k
            /\ fpc = "aborted"
            /\ err = HttpError(script[k].status, None)
            /\ epc \in {"fetch", "error"}
            /\ out = <<>> /\ wreqs = <<>>
            /\ output = None

C3_Witness ==
    /\ epc = "error"
    /\ Len(script) = 2
    /\ script[2].status = 403
    /\ Len(issues) > 0
    /\ err = HttpError(403, None)
    /\ output = None

\* ------------------------------------------------------------------ C7
\* C7: on both surfaces a request the upstream never answers ends the export in a
\* failure.
C7_BoundedWait ==
    (down /\ "await" \in {fpc, wpc}) ~> (epc = "error")

\* ------------------------------------------------------------------ C8
TimePairs ==
    {<<"originalEstimate", "timeoriginalestimate">>,
     <<"remainingEstimate", "timeestimate">>,
     <<"timeSpent", "timespent">>,
     <<"aggregateOriginalEstimate", "aggregatetimeoriginalestimate">>,
     <<"aggregateRemainingEstimate", "aggregatetimeestimate">>,
     <<"aggregateTimeSpent", "aggregatetimespent">>}

NineNames ==
    {"key", "summary", "status", "resolution", "resolutiondate", "updated",
     "assignee", "labels", "components"}

\* C8: every record of the output, body of the web export or file of the CLI, is an
\* Enriched Issue Record: the nine projected fields and the time block of six
\* Seconds/Human pairs, the Seconds of each pair being the raw value.
C8_SameSchema ==
    output # None =>
        \A i \in 1..Len(output[1].records) :
            LET rec == output[1].records[i]
            IN  /\ NineNames \subseteq DOMAIN rec
                /\ rec.key = Get(issues[i], "key")
                /\ "time" \in DOMAIN rec
                /\ \A p \in TimePairs :
                     /\ {p[1] \o "Seconds", p[1] \o "Human"} \subseteq DOMAIN rec.time
                     /\ rec.time[p[1] \o "Seconds"] = Get(FieldsOf(issues[i]), p[2])

\* ------------------------------------------------------------------ C9
\* C9: project_issues is 1:1 and order-preserving: the i-th record appended is derived
\* from the i-th raw record (same key), at most one per raw record, and on return
\* there are as many records as raw records, with or without work-logs.
C9_OneToOne ==
    /\ Len(out) <= Len(issues)
    /\ \A i \in 1..Len(out) : out[i].key = Get(issues[i], "key")
    /\ epc = "projected" => Len(out) = Len(issues)

C9_Witness ==
    /\ epc = "projected"
    /\ surface = "web"
    /\ include_worklogs
    /\ Len(out) = Len(issues)
    /\ Len(out) >= 2
    /\ out[2].key = Some(2)
    /\ Len(out[2].worklogs) >= 1

\* ------------------------------------------------------------------ C4
\* a Seconds/Human pair of an enriched record is well formed
PairOk(secs, hum) ==
    /\ secs = None \/ secs[1] >= 0
    /\ (hum = None) <=> (secs = None)
    /\ hum # None => hum[1] # ""

\* C4: in every enriched record, each of the six time-block pairs and each work-log's
\* timeSpentSeconds/timeSpentHuman pair has a Seconds that is null or a non-negative
\* integer and a Human that is null iff the Seconds is null and otherwise non-empty.
C4_SecondsHumanPairs ==
    \A i \in 1..Len(out) :
        /\ "time" \in DOMAIN out[i] =>
             \A p \in TimePairs :
                PairOk(out[i].time[p[1] \o "Seconds"], out[i].time[p[1] \o "Human"])
        /\ "worklogs" \in DOMAIN out[i] =>
             \A j \in 1..Len(out[i].worklogs) :
                PairOk(out[i].worklogs[j].timeSpentSeconds,
                       out[i].worklogs[j].timeSpentHuman)

\* ------------------------------------------------------------------ C2
\* C2: a zero-length batch is pagination exhaustion: neither fetcher goes on to
\* another request after a response that carried no record.
C2_ZeroBatchStops ==
    /\ (fpc = "request" /\ script # <<>>) => script[Len(script)].len > 0
    /\ (wpc = "request" /\ wscript # <<>>) => wscript[Len(wscript)].len > 0

\* ------------------------------------------------------------------ C6
\* C6: fed the same responses, fetch_worklogs (called with start_at = 0) issues the
\* same startAt values as fetch_all_issues and stops after the same response.
C6_SameDiscipline ==
    wstart = 0 =>
        /\ \A k \in 1..Min(Len(reqs), Len(wreqs)) : reqs[k] = wreqs[k]
        /\ fpc \in {"returned", "aborted"} => Len(wreqs) <= Len(reqs)
        /\ wpc \in {"returned", "aborted"} => Len(reqs) <= Len(wreqs)

\* ------------------------------------------------------------------ C10
\* C10: in both loops the startAt of every request is the number of records received
\* before it (plus the start_at argument of fetch_worklogs), hence never decreases
\* and leaves no gap and no overlap; and when fetch_all_issues returns it returns at
\* least as many records as the total captured from the first response.
C10_Cursor ==
    /\ \A k \in 1..Len(reqs) : reqs[k] = SumLens(script, k - 1)
    /\ \A k \in 1..Len(wreqs) : wreqs[k] = wstart + SumLens(wscript, k - 1)
    /\ fpc = "await" => reqs[Len(reqs)] = Len(issues)
    /\ wpc = "await" => wreqs[Len(wreqs)] = wstart + Len(logs_all)
    /\ \A k \in 2..Len(reqs) : reqs[k - 1] <= reqs[k]
    /\ \A k \in 2..Len(wreqs) : wreqs[k - 1] <= wreqs[k]
    /\ fpc = "returned" =>
          /\ total = IF script[1].total = None THEN Some(script[1].len)
                     ELSE script[1].total
          /\ Len(issues) >= total[1]
          /\ Len(issues) = SumLens(script, Len(script))

C10_Witness ==
    /\ fpc = "returned" /\ Len(reqs) >= 2 /\ reqs[2] > 0
    /\ wpc = "returned" /\ Len(wreqs) >= 2 /\ wreqs[2] > wstart
    /\ wstart = 1
    /\ Len(issues) > total[1]

====
